---- MODULE Spec2Model ----
(***************************************************************************)
(* Model of the Spritify add-on (spritify.py): the render_complete         *)
(* handlers spritify and gifify, the two manual-trigger operators, and the *)
(* path helpers they use.                                                  *)
(*                                                                         *)
(* A text is a sequence of tokens.  A token is a one-character string, or  *)
(* one of the two replacement fields of the Python format string,          *)
(* "{index:0Wd}" and "{suffix}".  A path is modelled by its final          *)
(* component (its name); the parent directory is carried unchanged by      *)
(* every pathlib call the add-on makes.                                    *)
(***************************************************************************)
EXTENDS Integers, Sequences, FiniteSets, TLC

(***************************************************************************)
(* Bounds of the model.                                                    *)
(***************************************************************************)
MaxNameLen == 3
MaxFrame == 10
MaxStep == 3
MaxSuffixLen == 1
MaxOutLen == 3
MaxOutSuffixLen == 2
MaxRunFrame == 2
MaxRunStep == 2
MaxViews == 2

(***************************************************************************)
(* Program constants.                                                      *)
(***************************************************************************)
DefaultDigits == 4

(* characters that occur in the path names the model enumerates *)
Chars == {"a", "#", "."}
SuffixChars == {"a", "."}
file_extension == <<".", "p", "n", "g">>
gif_suffix == <<".", "g", "i", "f">>
SuffixSlot == "{suffix}"

IndexSlot(w) == "{index:0" \o ToString(w) \o "d}"

(* the widest index field a name of the model can ask for *)
MaxDigits == IF MaxNameLen + 1 > DefaultDigits THEN MaxNameLen + 1 ELSE DefaultDigits

IndexSlots == {IndexSlot(w) : w \in 1..MaxDigits}

SlotWidth(tok) == CHOOSE w \in 1..MaxDigits : IndexSlot(w) = tok

(* all texts over the characters cs of length lo..hi *)
Texts(cs, lo, hi) == UNION {[1..n -> cs] : n \in lo..hi}

(* a final path component: not empty and not a run of dots ("." and ".." *)
(* are directory references, which PurePath does not keep as a file name) *)
ValidName(name) == Len(name) > 0 /\ \E i \in 1..Len(name) : name[i] # "."

(***************************************************************************)
(* pathlib.PurePath, on the final component.                               *)
(***************************************************************************)
(* str.rfind: the last position of c in name, 0 when there is none *)
rfind(name, c) ==
    LET P == {i \in 1..Len(name) : name[i] = c}
    IN IF P = {} THEN 0 ELSE CHOOSE i \in P : \A j \in P : j <= i

(* PurePath.suffix: from the last dot on, unless that dot is the first or *)
(* the last character of the name *)
PurePath_suffix(name) ==
    LET i == rfind(name, ".")
    IN IF 1 < i /\ i < Len(name) THEN SubSeq(name, i, Len(name)) ELSE <<>>

(* PurePath.stem: the name without its suffix *)
PurePath_stem(name) ==
    LET i == rfind(name, ".")
    IN IF 1 < i /\ i < Len(name) THEN SubSeq(name, 1, i - 1) ELSE name

(* PurePath.with_name: the parent is kept, the final component replaced *)
with_name(path, name) == name

(* PurePath.with_suffix: the old suffix, if any, is cut off first *)
with_suffix(name, suffix) ==
    LET old_suffix == PurePath_suffix(name)
    IN IF old_suffix = <<>>
       THEN name \o suffix
       ELSE SubSeq(name, 1, Len(name) - Len(old_suffix)) \o suffix

(***************************************************************************)
(* re.match of the file-name pattern: a lazy non-empty group 1, a run of   *)
(* one or more '#' as group 2, and text without '#' up to the end as       *)
(* group 3.                                                                *)
(***************************************************************************)
NoMatch == [matched |-> FALSE, group1 |-> <<>>, group2 |-> <<>>, group3 |-> <<>>]

(* length of the run of '#' that starts at position i *)
RECURSIVE HashRun(_, _)
HashRun(s, i) == IF i <= Len(s) /\ s[i] = "#" THEN 1 + HashRun(s, i + 1) ELSE 0

(* group 1 is lazy and not empty: the shortest prefix after which the rest *)
(* of the stem is a run of '#' followed by text without '#' *)
re_match(stem) ==
    LET Fits(p) == /\ HashRun(stem, p + 1) >= 1
                   /\ \A j \in (p + 1 + HashRun(stem, p + 1))..Len(stem) : stem[j] # "#"
        P == {p \in 1..(Len(stem) - 1) : Fits(p)}
    IN IF P = {} THEN NoMatch
       ELSE LET p == CHOOSE q \in P : \A r \in P : q <= r
                n == HashRun(stem, p + 1)
            IN [matched |-> TRUE,
                group1 |-> SubSeq(stem, 1, p),
                group2 |-> SubSeq(stem, p + 1, p + n),
                group3 |-> SubSeq(stem, p + n + 1, Len(stem))]

(***************************************************************************)
(* build_imagepath_template                                                *)
(***************************************************************************)
build_imagepath_template(filepath) ==
    LET render_filepath == filepath
        file_suffix == IF PurePath_suffix(render_filepath) # <<>>
                       THEN PurePath_suffix(render_filepath)
                       ELSE file_extension
        stem == PurePath_stem(render_filepath)
        filename_match == re_match(stem)
        digits_count == Len(filename_match.group2)
        index_template == <<IndexSlot(digits_count), SuffixSlot>>
        filename_template ==
            IF filename_match.matched
            THEN filename_match.group1 \o index_template \o filename_match.group3
            ELSE stem \o <<IndexSlot(DefaultDigits), SuffixSlot>>
    IN with_suffix(with_name(render_filepath, filename_template), file_suffix)

(***************************************************************************)
(* str.format(index = i, suffix = suffix)                                  *)
(***************************************************************************)
RECURSIVE Decimal(_)
Decimal(n) == IF n < 10 THEN <<ToString(n)>> ELSE Decimal(n \div 10) \o <<ToString(n % 10)>>

RECURSIVE Zeros(_)
Zeros(n) == IF n <= 0 THEN <<>> ELSE <<"0">> \o Zeros(n - 1)

(* format spec 0Wd: the decimal digits, filled with zeros up to width W *)
FormatIndex(i, w) == Zeros(w - Len(Decimal(i))) \o Decimal(i)

RECURSIVE format(_, _, _)
format(template, index, suffix) ==
    IF template = <<>> THEN <<>>
    ELSE LET tok == Head(template)
             text == IF tok = SuffixSlot THEN suffix
                     ELSE IF tok \in IndexSlots THEN FormatIndex(index, SlotWidth(tok))
                     ELSE <<tok>>
         IN text \o format(Tail(template), index, suffix)

(***************************************************************************)
(* build_image_paths                                                       *)
(***************************************************************************)
(* range(start, stop, step) for step >= 1 *)
RECURSIVE range(_, _, _)
range(start, stop, step) ==
    IF start < stop THEN <<start>> \o range(start + step, stop, step) ELSE <<>>

(* build_image_paths with the range stopping at frame_end, not after it *)
build_image_paths_ExclusiveEnd(start, end, step, filepath_template, suffix) ==
    LET frames == range(start, end, step)
    IN [k \in 1..Len(frames) |-> format(filepath_template, frames[k], suffix)]

build_image_paths(start, end, step, filepath_template, suffix) ==
    LET frames == range(start, end + 1, step)
    IN [k \in 1..Len(frames) |-> format(filepath_template, frames[k], suffix)]

(***************************************************************************)
(* build_suffixes                                                          *)
(***************************************************************************)
build_suffixes(multiview, format_, viewlist) ==
    IF multiview /\ format_ = "MULTIVIEW" THEN viewlist ELSE << <<>> >>

(***************************************************************************)
(* Output paths of one view                                                *)
(***************************************************************************)
spritesheet_filepath(out_filepath, suffix) ==
    with_name(out_filepath,
              PurePath_stem(out_filepath) \o suffix \o PurePath_suffix(out_filepath))

gif_filepath(out_filepath, suffix) ==
    with_suffix(with_name(out_filepath, PurePath_stem(out_filepath) \o suffix), gif_suffix)

(***************************************************************************)
(* State                                                                   *)
(***************************************************************************)
VARIABLES
    filepath,       \* scene.render.filepath (final component)
    out_filepath,   \* scene.spritesheet.filepath (final component)
    frame_start, frame_end, frame_step,
    use_multiview, views_format,
    views,          \* file_suffix of each of scene.render.views, in order
    os_name,
    auto_sprite, auto_gif,
    pc,             \* position of the running trigger
    caller,         \* the trigger that is running
    toggle,         \* local of the running execute
    suffixes, template,
    view,           \* position of the for loop over suffixes (from 1)
    images, images_count, offset, index,
    calls,          \* every subprocess.call made, with its outcome
    exc,            \* the exception each handler ended with
    ran,            \* the handlers whose body was entered
    flags0,         \* the two flags when the trigger started
    planned         \* output paths of the views, in order

scene == <<filepath, out_filepath, frame_start, frame_end, frame_step,
           use_multiview, views_format, views, os_name>>
flags == <<auto_sprite, auto_gif>>
locals == <<suffixes, template, view, images, images_count, offset, index>>
vars == <<scene, flags, pc, caller, toggle, locals, calls, exc, ran, flags0, planned>>

Min(a, b) == IF a < b THEN a ELSE b

(* images[lo:hi] of Python, lo and hi counted from 0 *)
Slice(s, lo, hi) == SubSeq(s, lo + 1, Min(hi, Len(s)))

NoExc == [spritify |-> "none", gifify |-> "none"]

(* what the external tool can do when it is called: exit with 0, exit with *)
(* another code, or not be found *)
Outcomes == {"0", "1", "FileNotFoundError"}

(* the state every trigger starts from *)
Start ==
    /\ pc = "idle" /\ caller = "none" /\ toggle = FALSE
    /\ suffixes = <<>> /\ template = <<>> /\ view = 0
    /\ images = <<>> /\ images_count = 0 /\ offset = 0 /\ index = 0
    /\ calls = <<>> /\ exc = NoExc /\ ran = {}
    /\ flags0 = flags /\ planned = <<>>

RunRenderPaths == {<<"a", "#", "#">>}
RunOutPaths == {<<"a", ".", "a">>}
RunSuffixes == {<<"L">>, <<"R">>}

Init ==
    /\ filepath \in RunRenderPaths
    /\ out_filepath \in RunOutPaths
    /\ frame_start \in 0..(MaxRunFrame - 1)
    /\ frame_end \in 0..MaxRunFrame
    /\ frame_step \in 0..MaxRunStep
    /\ use_multiview \in BOOLEAN
    /\ views_format \in {"STEREO_3D", "MULTIVIEW"}
    /\ views \in Texts(RunSuffixes, 1, MaxViews)
    /\ os_name \in {"posix", "nt"}
    /\ auto_sprite \in BOOLEAN
    /\ auto_gif \in BOOLEAN
    /\ Start

(***************************************************************************)
(* Triggers                                                                *)
(***************************************************************************)
(* SpritifyOperator.execute without the override of auto_sprite *)
SpritifyOperator_execute_NoOverride ==
    /\ pc = "idle"
    /\ caller' = "SpritifyOperator"
    /\ toggle' = FALSE
    /\ pc' = "spritify"
    /\ UNCHANGED <<scene, flags, locals, calls, exc, ran, flags0, planned>>

(* SpritifyOperator.execute, up to the call of spritify *)
SpritifyOperator_execute ==
    /\ pc = "idle"
    /\ caller' = "SpritifyOperator"
    /\ toggle' = (auto_sprite = FALSE)
    /\ auto_sprite' = TRUE
    /\ pc' = "spritify"
    /\ UNCHANGED <<scene, auto_gif, locals, calls, exc, ran, flags0, planned>>

(* GIFifyOperator.execute, up to the call of gifify *)
GIFifyOperator_execute ==
    /\ pc = "idle"
    /\ caller' = "GIFifyOperator"
    /\ toggle' = (auto_gif = FALSE)
    /\ auto_gif' = TRUE
    /\ pc' = "gifify"
    /\ UNCHANGED <<scene, auto_sprite, locals, calls, exc, ran, flags0, planned>>

(* the render_complete handlers: spritify, then gifify *)
render_complete ==
    /\ pc = "idle"
    /\ caller' = "render_complete"
    /\ pc' = "spritify"
    /\ UNCHANGED <<scene, flags, toggle, locals, calls, exc, ran, flags0, planned>>

(***************************************************************************)
(* spritify                                                                *)
(***************************************************************************)
(* the guard and the set-up before the loop over the views; on Windows the *)
(* call of the undefined name find_bin_pfilenamesath_windows raises        *)
spritify ==
    /\ pc = "spritify"
    /\ IF auto_sprite = TRUE
       THEN /\ ran' = ran \cup {"spritify"}
            /\ suffixes' = build_suffixes(use_multiview, views_format, views)
            /\ template' = build_imagepath_template(filepath)
            /\ IF os_name = "nt"
               THEN /\ exc' = [exc EXCEPT !.spritify = "NameError"]
                    /\ pc' = "spritify_return"
                    /\ view' = view
               ELSE /\ view' = 1
                    /\ pc' = "spritify_for"
                    /\ exc' = exc
       ELSE /\ pc' = "spritify_return"
            /\ UNCHANGED <<ran, suffixes, template, view, exc>>
    /\ UNCHANGED <<scene, flags, caller, toggle, images, images_count, offset, index,
                   calls, flags0, planned>>

(* one pass of the for loop, up to the while loop: range() raises on step 0 *)
spritify_for ==
    /\ pc = "spritify_for"
    /\ IF view > Len(suffixes)
       THEN /\ pc' = "spritify_return"
            /\ UNCHANGED <<images, images_count, offset, index, exc>>
       ELSE IF frame_step = 0
       THEN /\ exc' = [exc EXCEPT !.spritify = "ValueError"]
            /\ pc' = "spritify_return"
            /\ UNCHANGED <<images, images_count, offset, index>>
       ELSE /\ images' = build_image_paths(frame_start, frame_end, frame_step,
                                           template, suffixes[view])
            /\ images_count' = Len(images')
            /\ offset' = 0
            /\ index' = 0
            /\ pc' = "spritify_while"
            /\ exc' = exc
    /\ UNCHANGED <<scene, flags, caller, toggle, suffixes, template, view,
                   calls, ran, flags0, planned>>

(* one test of the while condition, and one pass of its body if it holds *)
spritify_while ==
    /\ pc = "spritify_while"
    /\ IF offset < images_count
       THEN \E result \in Outcomes :
            /\ calls' = Append(calls,
                   [tool |-> "montage",
                    options |-> <<"-depth", "8">>,
                    images |-> Slice(images, offset, offset + images_count),
                    out |-> spritesheet_filepath(out_filepath, suffixes[view]),
                    view |-> view,
                    result |-> result])
            /\ IF result = "FileNotFoundError"
               THEN /\ exc' = [exc EXCEPT !.spritify = result]
                    /\ pc' = "spritify_return"
                    /\ UNCHANGED <<offset, index>>
               ELSE /\ offset' = offset + images_count
                    /\ index' = index + 1
                    /\ UNCHANGED <<pc, exc>>
            /\ view' = view
       ELSE /\ view' = view + 1
            /\ pc' = "spritify_for"
            /\ UNCHANGED <<calls, exc, offset, index>>
    /\ UNCHANGED <<scene, flags, caller, toggle, suffixes, template,
                   images, images_count, ran, flags0, planned>>

(* SpritifyOperator.execute after spritify: an exception of spritify ends *)
(* execute at the call; otherwise the flag is put back *)
SpritifyOperator_finish ==
    /\ pc = "spritify_return"
    /\ caller = "SpritifyOperator"
    /\ auto_sprite' = IF exc.spritify = "none" /\ toggle = TRUE THEN FALSE ELSE auto_sprite
    /\ pc' = "done"
    /\ UNCHANGED <<scene, auto_gif, caller, toggle, locals, calls, exc, ran, flags0, planned>>

(* the handler list goes on with gifify, whatever spritify ended with *)
render_complete_next ==
    /\ pc = "spritify_return"
    /\ caller = "render_complete"
    /\ pc' = "gifify"
    /\ UNCHANGED <<scene, flags, caller, toggle, locals, calls, exc, ran, flags0, planned>>

(***************************************************************************)
(* gifify                                                                  *)
(***************************************************************************)
gifify ==
    /\ pc = "gifify"
    /\ IF auto_gif = TRUE
       THEN /\ ran' = ran \cup {"gifify"}
            /\ suffixes' = build_suffixes(use_multiview, views_format, views)
            /\ template' = build_imagepath_template(filepath)
            /\ view' = 1
            /\ pc' = "gifify_for"
       ELSE /\ pc' = "gifify_return"
            /\ UNCHANGED <<ran, suffixes, template, view>>
    /\ UNCHANGED <<scene, flags, caller, toggle, images, images_count, offset, index,
                   calls, exc, flags0, planned>>

(* one pass of the for loop: the frame list and the convert call *)
gifify_for ==
    /\ pc = "gifify_for"
    /\ IF view > Len(suffixes)
       THEN /\ pc' = "gifify_return"
            /\ UNCHANGED <<images, view, calls, exc>>
       ELSE IF frame_step = 0
       THEN /\ exc' = [exc EXCEPT !.gifify = "ValueError"]
            /\ pc' = "gifify_return"
            /\ UNCHANGED <<images, view, calls>>
       ELSE \E result \in Outcomes :
            /\ images' = build_image_paths(frame_start, frame_end, frame_step,
                                           template, suffixes[view])
            /\ calls' = Append(calls,
                   [tool |-> "convert",
                    options |-> <<"-dispose", "background", "-loop", "0">>,
                    images |-> images',
                    out |-> gif_filepath(out_filepath, suffixes[view]),
                    view |-> view,
                    result |-> result])
            /\ IF result = "FileNotFoundError"
               THEN /\ exc' = [exc EXCEPT !.gifify = result]
                    /\ pc' = "gifify_return"
                    /\ view' = view
               ELSE /\ view' = view + 1
                    /\ UNCHANGED <<pc, exc>>
    /\ UNCHANGED <<scene, flags, caller, toggle, suffixes, template,
                   images_count, offset, index, ran, flags0, planned>>

(* GIFifyOperator.execute after gifify *)
GIFifyOperator_finish ==
    /\ pc = "gifify_return"
    /\ caller = "GIFifyOperator"
    /\ auto_gif' = IF exc.gifify = "none" /\ toggle = TRUE THEN FALSE ELSE auto_gif
    /\ pc' = "done"
    /\ UNCHANGED <<scene, auto_sprite, caller, toggle, locals, calls, exc, ran, flags0, planned>>

(* the end of the handler list *)
render_complete_end ==
    /\ pc = "gifify_return"
    /\ caller = "render_complete"
    /\ pc' = "done"
    /\ UNCHANGED <<scene, flags, caller, toggle, locals, calls, exc, ran, flags0, planned>>

Next ==
    \/ SpritifyOperator_execute
    \/ GIFifyOperator_execute
    \/ render_complete
    \/ spritify
    \/ spritify_for
    \/ spritify_while
    \/ SpritifyOperator_finish
    \/ render_complete_next
    \/ gifify
    \/ gifify_for
    \/ GIFifyOperator_finish
    \/ render_complete_end

Spec == Init /\ [][Next]_vars

(***************************************************************************)
(* The frame paths of one view, as a function of the render path, the      *)
(* frame range and the view suffix: the two steps every run of spritify    *)
(* and gifify takes for a view, over a wider range of inputs.              *)
(***************************************************************************)
InitPaths ==
    /\ filepath \in {n \in Texts(Chars, 1, MaxNameLen) : ValidName(n)}
    /\ out_filepath \in RunOutPaths
    /\ frame_start \in 0..MaxFrame
    /\ frame_end \in 0..MaxFrame
    /\ frame_step \in 0..MaxStep
    /\ use_multiview = TRUE
    /\ views_format = "MULTIVIEW"
    /\ views \in {<<s>> : s \in Texts(SuffixChars, 0, MaxSuffixLen)}
    /\ os_name = "posix"
    /\ auto_sprite = TRUE
    /\ auto_gif = TRUE
    /\ Start

(* suffixes = build_suffixes(scene); template = build_imagepath_template(scene) *)
ResolveTemplate ==
    /\ pc = "idle"
    /\ suffixes' = build_suffixes(use_multiview, views_format, views)
    /\ template' = build_imagepath_template(filepath)
    /\ view' = 1
    /\ pc' = "template"
    /\ UNCHANGED <<scene, flags, caller, toggle, images, images_count, offset, index,
                   calls, exc, ran, flags0, planned>>

(* images = build_image_paths(scene, template, suffix) *)
ExpandFrames ==
    /\ pc = "template"
    /\ IF frame_step = 0
       THEN /\ exc' = [exc EXCEPT !.spritify = "ValueError"]
            /\ pc' = "raised"
            /\ UNCHANGED <<images, images_count>>
       ELSE /\ images' = build_image_paths(frame_start, frame_end, frame_step,
                                           template, suffixes[view])
            /\ images_count' = Len(images')
            /\ pc' = "paths"
            /\ exc' = exc
    /\ UNCHANGED <<scene, flags, caller, toggle, suffixes, template, view, offset, index,
                   calls, ran, flags0, planned>>

NextPaths == ResolveTemplate \/ ExpandFrames

SpecPaths == InitPaths /\ [][NextPaths]_vars

(***************************************************************************)
(* The output paths of the views of one run, as a function of the          *)
(* sprite-sheet path and the view suffixes.                                *)
(***************************************************************************)
InitOutput ==
    /\ filepath \in RunRenderPaths
    /\ out_filepath \in {n \in Texts(Chars \ {"#"}, 1, MaxOutLen) :
                            ValidName(n) /\ ValidName(PurePath_stem(n))}
    /\ frame_start = 1
    /\ frame_end = 1
    /\ frame_step = 1
    /\ use_multiview = TRUE
    /\ views_format = "MULTIVIEW"
    /\ views \in Texts(Texts(SuffixChars, 0, MaxOutSuffixLen), 1, MaxViews)
    /\ os_name = "posix"
    /\ auto_sprite = TRUE
    /\ auto_gif = TRUE
    /\ Start

(* the spritesheet_filepath of every view of a run of spritify *)
PlanSpriteSheets ==
    /\ pc = "idle"
    /\ suffixes' = build_suffixes(use_multiview, views_format, views)
    /\ planned' = [k \in 1..Len(suffixes') |-> spritesheet_filepath(out_filepath, suffixes'[k])]
    /\ pc' = "sprite_paths"
    /\ UNCHANGED <<scene, flags, caller, toggle, template, view, images, images_count,
                   offset, index, calls, exc, ran, flags0>>

(* the gif_filepath of every view of a run of gifify *)
PlanGifs ==
    /\ pc = "idle"
    /\ suffixes' = build_suffixes(use_multiview, views_format, views)
    /\ planned' = [k \in 1..Len(suffixes') |-> gif_filepath(out_filepath, suffixes'[k])]
    /\ pc' = "gif_paths"
    /\ UNCHANGED <<scene, flags, caller, toggle, template, view, images, images_count,
                   offset, index, calls, exc, ran, flags0>>

NextOutput == PlanSpriteSheets \/ PlanGifs

SpecOutput == InitOutput /\ [][NextOutput]_vars

(***************************************************************************)
(* Properties                                                              *)
(***************************************************************************)
Operators == {"SpritifyOperator", "GIFifyOperator"}

(* the calls of one tool, and those of one tool for one view *)
CallsOf(tool) == {i \in 1..Len(calls) : calls[i].tool = tool}
CallsFor(tool, v) == {i \in CallsOf(tool) : calls[i].view = v}

(* the frame list of the view at position v of the running handler *)
FramesOf(v) == build_image_paths(frame_start, frame_end, frame_step, template, suffixes[v])

ValidRange == frame_step >= 1 /\ frame_end >= frame_start

(* C1: when a manual trigger ends, however its run of spritify or gifify   *)
(* ended, the auto-generate flag of the trigger has the value it had       *)
(* before the trigger started.                                             *)
C1_FlagRestored ==
    pc = "done" =>
        /\ caller = "SpritifyOperator" => auto_sprite = flags0[1]
        /\ caller = "GIFifyOperator" => auto_gif = flags0[2]

(* C2: when a handler returns, every view after a view whose job failed    *)
(* (non-zero exit, or tool not found) has had its job dispatched.          *)
C2_FailureIsolation ==
    \A h \in {"spritify", "gifify"} :
        LET tool == IF h = "spritify" THEN "montage" ELSE "convert"
        IN (pc = h \o "_return" /\ h \in ran) =>
               \A i \in CallsOf(tool) :
                   calls[i].result # "0" =>
                       \A v \in (calls[i].view + 1)..Len(suffixes) : CallsFor(tool, v) # {}

(* C4: with frame_step < 1 or frame_end < frame_start, build_image_paths   *)
(* returns no list and no montage or convert job is made.                  *)
C4_InvalidRangeRejected ==
    ~ValidRange => pc # "spritify_while" /\ calls = <<>>

(* C5: a run of spritify or gifify with its flag on that completes has     *)
(* made as many tool calls as build_suffixes returned suffixes: one when   *)
(* multiview is off or the format is not MULTIVIEW, else one per view.     *)
C5_JobPerSuffix ==
    \A h \in {"spritify", "gifify"} :
        LET tool == IF h = "spritify" THEN "montage" ELSE "convert"
        IN (pc = h \o "_return" /\ h \in ran /\ exc[h] = "none") =>
               /\ Cardinality(CallsOf(tool)) = Len(suffixes)
               /\ Len(suffixes) = IF use_multiview /\ views_format = "MULTIVIEW"
                                  THEN Len(views) ELSE 1

(* C7: no convert job is made for an empty frame list (gifify fails        *)
(* instead); a convert job has loop count 0, disposal background and the   *)
(* frames of its view in ascending order.                                  *)
C7_GifJob ==
    \A i \in CallsOf("convert") :
        /\ calls[i].images # <<>>
        /\ calls[i].options = <<"-dispose", "background", "-loop", "0">>
        /\ calls[i].images = FramesOf(calls[i].view)

(* C10: the while loop of spritify ends after exactly one pass for every   *)
(* view, and that pass calls montage once with the whole frame list.       *)
C10_OneIteration ==
    (pc = "spritify_for" /\ view > 1) =>
        /\ index = 1
        /\ Cardinality(CallsFor("montage", view - 1)) = 1
        /\ \A i \in CallsFor("montage", view - 1) : calls[i].images = images

(* the template still has its index field, and where *)
HasIndexSlot(t) == \E p \in 1..Len(t) : t[p] \in IndexSlots
SlotPos(t) == CHOOSE p \in 1..Len(t) : t[p] \in IndexSlots

DigitValue(ch) == CHOOSE d \in 0..9 : ToString(d) = ch

RECURSIVE ParseDecimal(_)
ParseDecimal(ds) ==
    IF ds = <<>> THEN 0
    ELSE 10 * ParseDecimal(SubSeq(ds, 1, Len(ds) - 1)) + DigitValue(ds[Len(ds)])

(* the frame index read back from a path made from template t: the text    *)
(* between the literal text before the index field and the text after it   *)
EmbeddedIndex(path, t, suffix) ==
    LET p == SlotPos(t)
        after == Len(format(SubSeq(t, p + 1, Len(t)), 0, suffix))
    IN ParseDecimal(SubSeq(path, p, Len(path) - after))

(* C3: for frame_step >= 1 and frame_end >= frame_start, build_image_paths *)
(* returns floor((frame_end - frame_start) / frame_step) + 1 paths; path k *)
(* (from 0) is the template rendered with frame_start + k * frame_step,    *)
(* which never exceeds frame_end, and the index read back from the paths   *)
(* of a template with an index field is that frame, so strictly ascending. *)
C3_FramePaths ==
    (pc = "paths" /\ ValidRange) =>
        /\ Len(images) = ((frame_end - frame_start) \div frame_step) + 1
        /\ \A k \in 0..(Len(images) - 1) :
               LET i == frame_start + k * frame_step
               IN /\ i <= frame_end
                  /\ images[k + 1] = format(template, i, suffixes[view])
                  /\ HasIndexSlot(template) =>
                         EmbeddedIndex(images[k + 1], template, suffixes[view]) = i
        /\ HasIndexSlot(template) =>
               \A k \in 1..(Len(images) - 1) :
                   EmbeddedIndex(images[k], template, suffixes[view])
                       < EmbeddedIndex(images[k + 1], template, suffixes[view])

(* a range with a step over 1 that does not end on frame_end and crosses   *)
(* from one-digit to two-digit frames, expanded on a template with a field *)
C3_Witness ==
    /\ pc = "paths" /\ ValidRange
    /\ frame_step >= 2
    /\ (frame_end - frame_start) % frame_step # 0
    /\ frame_start < 10 /\ frame_end >= 10
    /\ Len(images) >= 3
    /\ HasIndexSlot(template)

(* the positions of '#' in a stem *)
Hashes(stem) == {i \in 1..Len(stem) : stem[i] = "#"}
FirstHash(stem) == CHOOSE i \in Hashes(stem) : \A j \in Hashes(stem) : i <= j
SingleRun(stem) == Cardinality(Hashes(stem)) = HashRun(stem, FirstHash(stem))

(* the extension the template ends with *)
TemplateSuffix == IF PurePath_suffix(filepath) # <<>> THEN PurePath_suffix(filepath)
                  ELSE file_extension

(* C6: for a stem with a run of '#' (also one that starts with '#' or is   *)
(* nothing else) the index field is as wide as the run and stands in its   *)
(* place; for a stem without '#' the field is 4 wide and stands at the end *)
(* of the stem, right before the extension.                                *)
C6_PaddingWidth ==
    pc = "template" =>
        LET stem == PurePath_stem(filepath)
        IN IF Hashes(stem) = {}
           THEN template = stem \o <<IndexSlot(DefaultDigits), SuffixSlot>> \o TemplateSuffix
           ELSE SingleRun(stem) =>
                    LET f == FirstHash(stem)
                        n == HashRun(stem, f)
                    IN template = SubSeq(stem, 1, f - 1) \o <<IndexSlot(n), SuffixSlot>>
                                  \o SubSeq(stem, f + n, Len(stem)) \o TemplateSuffix

(* C9: in one run, the output paths of two views with different suffixes   *)
(* differ, for the sprite sheets and for the GIFs, dots or not.            *)
C9_DistinctOutputs ==
    pc \in {"sprite_paths", "gif_paths"} =>
        \A j, k \in 1..Len(suffixes) :
            suffixes[j] # suffixes[k] => planned[j] # planned[k]

(* C8: a manual trigger runs its handler whatever its flag was: the body   *)
(* of spritify (of gifify) is entered, a run that completes has called     *)
(* montage (convert) for every view that has frames, no job of the other   *)
(* kind is made, and the other flag keeps its value throughout.            *)
C8_ManualTriggerRuns ==
    /\ caller = "SpritifyOperator" =>
           /\ auto_gif = flags0[2]
           /\ "gifify" \notin ran
           /\ CallsOf("convert") = {}
           /\ pc \in {"spritify_for", "spritify_while", "spritify_return", "done"} =>
                  /\ "spritify" \in ran
                  /\ suffixes = build_suffixes(use_multiview, views_format, views)
           /\ (pc = "done" /\ exc.spritify = "none") =>
                  \A v \in 1..Len(suffixes) :
                      FramesOf(v) # <<>> => CallsFor("montage", v) # {}
    /\ caller = "GIFifyOperator" =>
           /\ auto_sprite = flags0[1]
           /\ "spritify" \notin ran
           /\ CallsOf("montage") = {}
           /\ pc \in {"gifify_for", "gifify_return", "done"} =>
                  /\ "gifify" \in ran
                  /\ suffixes = build_suffixes(use_multiview, views_format, views)
           /\ (pc = "done" /\ exc.gifify = "none") =>
                  \A v \in 1..Len(suffixes) : CallsFor("convert", v) # {}

(* a manual sprite-sheet run that started with auto_sprite off and called  *)
(* montage for two views *)
C8_Witness ==
    /\ pc = "done" /\ caller = "SpritifyOperator"
    /\ flags0[1] = FALSE
    /\ exc.spritify = "none"
    /\ Cardinality(CallsOf("montage")) = 2

====
